---- MODULE Spec2Model ----
(***************************************************************************)
(* Model of src/generate.py: the Hill and SkiJump value classes, their     *)
(* methods, and the command-line driver under `if __name__ == "__main__"`. *)
(*                                                                         *)
(* Numbers.  A Python/numpy float is modelled as an extended rational: a   *)
(* record [k, n, d] with k = "fin" (the rational n/d in lowest terms,      *)
(* d > 0), k = "inf" (n = 1 or -1 gives the sign) or k = "nan".  Division  *)
(* by zero follows numpy's float64 rules (x/0 = +-inf, 0/0 = nan, no       *)
(* exception), and inf/nan propagate through + - * and comparisons as in   *)
(* IEEE 754.  Rounding, signed zeros and underflow are not modelled.       *)
(***************************************************************************)
EXTENDS Integers, Sequences, FiniteSets, TLC

(* ------------------------------ bounds -------------------------------- *)
\* v0 ranges over 0..MaxV0
MaxV0 == 2
\* coarse x arguments range over -MaxX..MaxX
MaxX == 2
\* the fine x argument is 1/TinyXDen (its parabola value lies inside the snap band)
TinyXDen == 10000
\* sample counts range over -1..MaxN
MaxN == 3
\* hill offsets are -MaxOffset, 0 and MaxOffset
MaxOffset == 2
\* hill slopes range over -MaxSlope..0
MaxSlope == 1

(* --------------------------- float arithmetic ------------------------- *)
RECURSIVE GCD(_, _)
GCD(a, b) == IF b = 0 THEN a ELSE GCD(b, a % b)

Abs(i) == IF i < 0 THEN -i ELSE i

\* the rational n/d (d # 0) in lowest terms with a positive denominator
Q(n, d) ==
  LET g == GCD(Abs(n), Abs(d))
      s == IF d < 0 THEN -1 ELSE 1
  IN [k |-> "fin", n |-> s * (n \div g), d |-> s * (d \div g)]

Zero == Q(0, 1)
One == Q(1, 1)
Half == Q(1, 2)
PosInf == [k |-> "inf", n |-> 1, d |-> 0]
NegInf == [k |-> "inf", n |-> -1, d |-> 0]
NaN == [k |-> "nan", n |-> 0, d |-> 0]
\* no number at all (the call raised, or has not happened)
NoValue == [k |-> "none", n |-> 0, d |-> 0]

Sign(a) == IF a.n > 0 THEN 1 ELSE IF a.n < 0 THEN -1 ELSE 0
Inf(s) == IF s > 0 THEN PosInf ELSE NegInf

Neg(a) == IF a.k = "fin" THEN Q(-a.n, a.d)
          ELSE IF a.k = "inf" THEN Inf(-a.n) ELSE NaN

Mul(a, b) ==
  IF a.k = "nan" \/ b.k = "nan" THEN NaN
  ELSE IF a.k = "inf" \/ b.k = "inf"
       THEN IF Sign(a) * Sign(b) = 0 THEN NaN ELSE Inf(Sign(a) * Sign(b))
       ELSE Q(a.n * b.n, a.d * b.d)

Add(a, b) ==
  IF a.k = "nan" \/ b.k = "nan" THEN NaN
  ELSE IF a.k = "inf" /\ b.k = "inf" THEN IF a.n = b.n THEN a ELSE NaN
  ELSE IF a.k = "inf" THEN a
  ELSE IF b.k = "inf" THEN b
  ELSE Q(a.n * b.d + b.n * a.d, a.d * b.d)

Sub(a, b) == Add(a, Neg(b))

\* numpy float64 true division: a zero divisor gives inf or nan, not an exception
Div(a, b) ==
  IF a.k = "nan" \/ b.k = "nan" THEN NaN
  ELSE IF a.k = "inf" /\ b.k = "inf" THEN NaN
  ELSE IF a.k = "inf" THEN Inf(a.n * (IF Sign(b) < 0 THEN -1 ELSE 1))
  ELSE IF b.k = "inf" THEN Zero
  ELSE IF b.n = 0 THEN (IF a.n = 0 THEN NaN ELSE Inf(Sign(a)))
  ELSE Q(a.n * b.d, a.d * b.n)

Square(a) == Mul(a, a)

\* an/ad < bn/bd for ad, bd > 0, by comparing integer parts and then the
\* reciprocals of the fractional parts (no cross product, so no overflow)
RECURSIVE LtQ(_, _, _, _)
LtQ(an, ad, bn, bd) ==
  LET qa == an \div ad
      qb == bn \div bd
      ra == an % ad
      rb == bn % bd
  IN IF qa # qb THEN qa < qb
     ELSE IF rb = 0 THEN FALSE
     ELSE IF ra = 0 THEN TRUE
     ELSE LtQ(bd, rb, ad, ra)

\* a < b on floats: every comparison with nan is false
Lt(a, b) ==
  IF a.k = "nan" \/ b.k = "nan" THEN FALSE
  ELSE IF a.k = "inf" THEN a.n < 0 /\ ~(b.k = "inf" /\ b.n < 0)
  ELSE IF b.k = "inf" THEN b.n > 0
  ELSE LtQ(a.n, a.d, b.n, b.d)

Gt(a, b) == Lt(b, a)

(* ------------------------------ constants ----------------------------- *)
\* EARTH_GRAVITY = 1.0
EARTH_GRAVITY == 1
\* the literal 1e-8 of SkiJump.y is 1/SnapDen
SnapDen == 100000000
\* argparse default of -n
DefaultN == 10

Snap == Q(1, SnapDen)

\* HILL = Hill(offset=-2.0, slope=-1.0)
HILL == [offset |-> Q(-2, 1), slope |-> Q(-1, 1)]

(* ------------------------------- angles ------------------------------- *)
\* Launch angles are named; np.tan and np.cos are modelled by their exact
\* values at angles where both are rational.
Angles == {"0", "atan(3/4)", "-atan(3/4)"}

NpTan(alpha) ==
  CASE alpha = "0" -> Zero
    [] alpha = "atan(3/4)" -> Q(3, 4)
    [] alpha = "-atan(3/4)" -> Q(-3, 4)

NpCos(alpha) ==
  CASE alpha = "0" -> One
    [] alpha = "atan(3/4)" -> Q(4, 5)
    [] alpha = "-atan(3/4)" -> Q(4, 5)

(* ------------------------------ Hill ---------------------------------- *)
Hills == {HILL} \cup
         {[offset |-> Q(o, 1), slope |-> Q(s, 1)] :
            o \in {-MaxOffset, 0, MaxOffset}, s \in -MaxSlope..0}

\* variant of Hill.y with the two fields swapped
HillY_Swapped(h, x) == Add(h.slope, Mul(h.offset, x))

\* variant of Hill.y that drops the offset
HillY_NoOffset(h, x) == Mul(h.slope, x)

\* Hill.y: return self.offset + self.slope * x
HillY(h, x) == Add(h.offset, Mul(h.slope, x))

(* ----------------------------- SkiJump -------------------------------- *)
Jumps == {[v0 |-> Q(v, 1), alpha |-> a] : v \in 0..MaxV0, a \in Angles}

NoJump == [v0 |-> NoValue, alpha |-> "none"]

\* variant of the parabola whose linear term lacks the factor x
RawParabola_NoX(j, x) ==
  Sub(NpTan(j.alpha),
      Mul(Half,
          Mul(Mul(Div(One, Square(Mul(j.v0, NpCos(j.alpha)))), Q(EARTH_GRAVITY, 1)),
              Square(x))))

\* y_value = np.tan(alpha) * x - 0.5 * (1 / (v0 * np.cos(alpha)) ** 2 * EARTH_GRAVITY * x**2)
RawParabola(j, x) ==
  Sub(Mul(NpTan(j.alpha), x),
      Mul(Half,
          Mul(Mul(Div(One, Square(Mul(j.v0, NpCos(j.alpha)))), Q(EARTH_GRAVITY, 1)),
              Square(x))))

\* variant of SkiJump.y without the zero-snap branch
Y_NoSnap(j, x) == [outcome |-> "ok", value |-> RawParabola(j, x)]

\* SkiJump.y: the parabola value, snapped to 0.0 inside (-1e-8, 1e-8)
Y(j, x) ==
  LET y_value == RawParabola(j, x)
  IN [outcome |-> "ok",
      value |-> IF Lt(y_value, Snap) /\ Gt(y_value, Neg(Snap)) THEN Zero ELSE y_value]

\* SkiJump.from_json_file: raise NotImplementedError()
FromJsonFile(path) == [outcome |-> "NotImplementedError", value |-> NoJump]

\* SkiJump.landing: raise NotImplementedError()
Landing(j, h) == [outcome |-> "NotImplementedError", value |-> NoValue]

\* SkiJump.sample: xs = np.array([]); ys = np.array([]); return xs, ys
Sample(j, h, n) == [outcome |-> "ok", xs |-> <<>>, ys |-> <<>>]

(* ------------------------------- state -------------------------------- *)
VARIABLES
  jump,        \* the SkiJump object the methods are called on
  hill,        \* the Hill object passed to / called on
  op,          \* the last method called: "none", "Hill.y", "SkiJump.y", "landing", "sample"
  argX,        \* its x argument (NoValue when it takes none)
  argN,        \* its n argument (0 when it takes none)
  outcome,     \* "ok" or the name of the exception it raised
  retValue,    \* the float it returned (NoValue when none)
  retXs,       \* the xs sequence sample returned
  retYs,       \* the ys sequence sample returned
  pc,          \* driver position: "start", "parsed", "done"
  args,        \* the parsed command line
  stepsDone,   \* driver steps completed: subset of {"read", "sample"}
  failure,     \* the error that ended the driver, "none" if none
  exitStatus,  \* the process exit status (-1 while running)
  written      \* number of times the output file has been written

vars == <<jump, hill, op, argX, argN, outcome, retValue, retXs, retYs,
          pc, args, stepsDone, failure, exitStatus, written>>

callVars == <<op, argX, argN, outcome, retValue, retXs, retYs>>
driverVars == <<pc, args, stepsDone, failure, exitStatus, written>>

\* x arguments; the fine one only at alpha = 0, where the arithmetic stays
\* within TLC's 32-bit integers
XValues(j) ==
  {Q(i, 1) : i \in -MaxX..MaxX} \cup
  (IF j.alpha = "0" THEN {Q(1, TinyXDen)} ELSE {})

NValues == -1..MaxN

NoArgs == [input |-> "", output |-> "", n |-> 0]

Init ==
  /\ jump \in Jumps
  /\ hill \in Hills
  /\ op = "none"
  /\ argX = NoValue
  /\ argN = 0
  /\ outcome = "none"
  /\ retValue = NoValue
  /\ retXs = <<>>
  /\ retYs = <<>>
  /\ pc = "start"
  /\ args = NoArgs
  /\ stepsDone = {}
  /\ failure = "none"
  /\ exitStatus = -1
  /\ written = 0

(* --------------------------- method calls ----------------------------- *)
CallHillY ==
  \E x \in XValues(jump) :
    /\ op' = "Hill.y"
    /\ argX' = x
    /\ argN' = 0
    /\ outcome' = "ok"
    /\ retValue' = HillY(hill, x)
    /\ retXs' = <<>>
    /\ retYs' = <<>>
    /\ UNCHANGED <<jump, hill>>
    /\ UNCHANGED driverVars

CallSkiJumpY ==
  \E x \in XValues(jump) :
    LET r == Y(jump, x) IN
    /\ op' = "SkiJump.y"
    /\ argX' = x
    /\ argN' = 0
    /\ outcome' = r.outcome
    /\ retValue' = r.value
    /\ retXs' = <<>>
    /\ retYs' = <<>>
    /\ UNCHANGED <<jump, hill>>
    /\ UNCHANGED driverVars

CallLanding ==
  LET r == Landing(jump, hill) IN
  /\ op' = "landing"
  /\ argX' = NoValue
  /\ argN' = 0
  /\ outcome' = r.outcome
  /\ retValue' = r.value
  /\ retXs' = <<>>
  /\ retYs' = <<>>
  /\ UNCHANGED <<jump, hill>>
  /\ UNCHANGED driverVars

CallSample ==
  \E n \in NValues :
    LET r == Sample(jump, hill, n) IN
    /\ op' = "sample"
    /\ argX' = NoValue
    /\ argN' = n
    /\ outcome' = r.outcome
    /\ retValue' = NoValue
    /\ retXs' = r.xs
    /\ retYs' = r.ys
    /\ UNCHANGED <<jump, hill>>
    /\ UNCHANGED driverVars

(* ------------------------------ driver -------------------------------- *)
\* variant in which every run reports success
ExitStatus_AlwaysZero(result) == 0

\* exit status of the interpreter: 0 on normal end, 2 from argparse's error
\* exit, 1 for an uncaught exception
ExitStatus(result) ==
  CASE result = "ok" -> 0
    [] result = "ArgumentError" -> 2
    [] OTHER -> 1

Paths == {"jump.json"}

\* parser.parse_args(): a malformed command line ends the process
DriverParse ==
  /\ pc = "start"
  /\ \E wellFormed \in BOOLEAN, p \in Paths, n \in NValues \cup {DefaultN} :
       IF wellFormed
       THEN /\ args' = [input |-> p, output |-> "out.txt", n |-> n]
            /\ pc' = "parsed"
            /\ UNCHANGED <<failure, exitStatus>>
       ELSE /\ args' = args
            /\ pc' = "done"
            /\ failure' = "ArgumentError"
            /\ exitStatus' = ExitStatus("ArgumentError")
  /\ UNCHANGED <<stepsDone, written>>
  /\ UNCHANGED <<jump, hill>>
  /\ UNCHANGED callVars

\* the rest of the script: read the configuration, sample; step 3 (dump to
\* args.output) is a comment only, so nothing is written
DriverMain ==
  /\ pc = "parsed"
  /\ pc' = "done"
  /\ LET cfg == FromJsonFile(args.input) IN
       IF cfg.outcome # "ok"
       THEN /\ failure' = cfg.outcome
            /\ exitStatus' = ExitStatus(cfg.outcome)
            /\ stepsDone' = stepsDone
       ELSE LET s == Sample(cfg.value, HILL, args.n) IN
            IF s.outcome # "ok"
            THEN /\ failure' = s.outcome
                 /\ exitStatus' = ExitStatus(s.outcome)
                 /\ stepsDone' = {"read"}
            ELSE /\ failure' = failure
                 /\ exitStatus' = ExitStatus("ok")
                 /\ stepsDone' = {"read", "sample"}
  /\ UNCHANGED <<args, written>>
  /\ UNCHANGED <<jump, hill>>
  /\ UNCHANGED callVars

Next ==
  \/ CallHillY
  \/ CallSkiJumpY
  \/ CallLanding
  \/ CallSample
  \/ DriverParse
  \/ DriverMain

Spec == Init /\ [][Next]_vars

(* ------------------------------ properties ---------------------------- *)
Positive(a) == Gt(a, Zero)
AbsQ(a) == IF Lt(a, Zero) THEN Neg(a) ELSE a

\* C1: for every hill and every n >= 1, sample(hill, n) returns two parallel
\* sequences xs, ys that each have length exactly n.
C1_SampleLength ==
  (op = "sample" /\ argN >= 1) =>
    (outcome = "ok" /\ Len(retXs) = argN /\ Len(retYs) = argN)

\* C2: for every hill and every n < 1, sample(hill, n) ends in an
\* InvalidArgumentError and returns no sequences.
C2_SampleRejectsNonPositive ==
  (op = "sample" /\ argN < 1) => outcome = "InvalidArgumentError"

\* C3: for v0 > 0 and the fixed HILL, landing(hill) returns x # 0 with
\* |SkiJump.y(x) - Hill.y(x)| < 1e-6.
C3_LandingOnHill ==
  (op = "landing" /\ Positive(jump.v0) /\ hill = HILL) =>
    /\ outcome = "ok"
    /\ retValue.k = "fin"
    /\ retValue # Zero
    /\ Lt(AbsQ(Sub(Y(jump, retValue).value, HillY(hill, retValue))), Q(1, 1000000))

\* The equation SkiJump.y(x) = Hill.y(x) is a*x^2 + b*x + c = 0 with
\* a = g / (2 (v0 cos alpha)^2), b = slope - tan alpha, c = offset.  It has no
\* non-zero real root when b^2 - 4ac < 0, or when b = c = 0 (only the root 0).
NoNonZeroRealRoot(j, h) ==
  LET a == Div(Q(EARTH_GRAVITY, 2), Square(Mul(j.v0, NpCos(j.alpha))))
      b == Sub(h.slope, NpTan(j.alpha))
      c == h.offset
      disc == Sub(Square(b), Mul(Q(4, 1), Mul(a, c)))
  IN /\ Positive(j.v0)
     /\ \/ Lt(disc, Zero)
        \/ b = Zero /\ c = Zero

\* C4: when SkiJump.y(x) = Hill.y(x) has no non-zero real root, landing(hill)
\* ends in a NoIntersectionError, not in a value or another error.
C4_NoIntersection ==
  (op = "landing" /\ NoNonZeroRealRoot(jump, hill)) =>
    outcome = "NoIntersectionError"

\* C5: for v0 = 0, every evaluation SkiJump.y(x) fails with an
\* InvalidParameterError instead of returning a number, NaN or infinity.
C5_ZeroSpeedRejected ==
  (op = "SkiJump.y" /\ jump.v0 = Zero) => outcome = "InvalidParameterError"

\* C6: in every run of the driver, a failed step ends the run with a non-zero
\* exit status and no output written; the output is written only after both
\* the configuration read and the sampling have succeeded, and at most once.
C6_DriverSafe ==
  /\ (pc = "done" /\ failure # "none") => (exitStatus # 0 /\ written = 0)
  /\ written > 0 => {"read", "sample"} \subseteq stepsDone
  /\ written <= 1

C6_Witness ==
  /\ pc = "done"
  /\ failure = "NotImplementedError"
  /\ exitStatus = 1
  /\ written = 0

C8_HillLinear ==
  [][(op' = "Hill.y" /\ Lt(hill.slope, Zero)) =>
       /\ hill' = hill
       /\ outcome' = "ok"
       /\ retValue' = Q(hill.offset.n * argX'.d + hill.slope.n * argX'.n, argX'.d)]_vars

C8_Witness ==
  /\ op = "Hill.y"
  /\ Lt(hill.slope, Zero)
  /\ hill.offset # Zero
  /\ argX = Q(1, TinyXDen)
  /\ retValue = Q(hill.offset.n * TinyXDen + hill.slope.n, TinyXDen)

\* the claim's parabola r = tan(alpha)*x - 0.5*g*x^2 / (v0*cos(alpha))^2
ClaimRaw(j, x) ==
  Sub(Mul(NpTan(j.alpha), x),
      Div(Mul(Q(EARTH_GRAVITY, 2), Square(x)), Square(Mul(j.v0, NpCos(j.alpha)))))

\* -1e-8 < r < 1e-8, i.e. |n| * 10^8 < d for r = n/d
InBand(r) == r.k = "fin" /\ Abs(r.n) <= (r.d - 1) \div SnapDen

\* C9: SkiJump.y returns exactly 0.0 when the raw parabola value r lies in
\* (-1e-8, 1e-8) and r unchanged otherwise, so no returned value is a non-zero
\* number strictly inside (-1e-8, 1e-8).
C9_SnapRule ==
  op = "SkiJump.y" =>
    LET r == ClaimRaw(jump, argX)
    IN /\ outcome = "ok"
       /\ InBand(r) => retValue = Zero
       /\ ~InBand(r) => retValue = r
       /\ ~(InBand(retValue) /\ retValue # Zero)

C9_Witness ==
  /\ op = "SkiJump.y"
  /\ InBand(ClaimRaw(jump, argX))
  /\ ClaimRaw(jump, argX) # Zero
  /\ retValue = Zero

====
